---- MODULE Spec2Model ----
(***************************************************************************)
(* The buffered write pipeline of parquet_exp: RowWriteBuffer              *)
(* (src/src/rowwritebuffer.rs), the producer side that accumulates rows    *)
(* and hands full batches over a bounded std::sync::mpsc channel, and the  *)
(* background writer thread it spawns, which writes one row group per      *)
(* batch received.                                                         *)
(***************************************************************************)
EXTENDS Integers, Sequences, FiniteSets, TLC

\* ------------------------------------------------------------------ bounds
MaxRows == 4
MaxExplicitFlushes == 1
MaxGroupSize == 3

\* The rows a caller may append (Row is opaque to the buffer).
RowValues == {"a", "b"}

\* sync_channel(2): the channel's internal buffer holds two batches.
ChannelCapacity == 2

VARIABLES
    max_row_group,  \* RowWriteBuffer.max_row_group (group_size of new)
    buffer,         \* RowWriteBuffer.buffer: the in-progress batch
    write_sink,     \* TRUE while the SyncSender is alive (not dropped)
    rec_buffer,     \* TRUE while the Receiver is alive (not dropped)
    chan,           \* the batches sitting in the channel's buffer, oldest first
    ppc,            \* the producer's position
    caller,         \* which operation called the flush in progress
    rows_to_write,  \* the batch a producer blocked in send holds
    cpc,            \* the writer thread's position
    cur,            \* the batch the writer thread is encoding
    cresult,        \* how channel_writer ended: none, ok, err, panic
    written,        \* the row groups written to the output, in order
    appended,       \* history: every row passed to append_row, in order
    sent,           \* history: every batch send() enqueued, with its caller
    flush_calls,    \* history: the number of flush() invocations
    explicit,       \* history: the number of flush() calls made by the user
    \* the sorted merge (merge_parquet)
    m_pc,           \* the merge's position: off, start, merging, closed, aborted
    m_sources,      \* the input sources: for each, the keys of its rows in order
    m_cmp,          \* the comparator passed to the merge: "lt" or "le"
    m_cursor,       \* for each source, the position of its current row
    m_out,          \* the rows appended to the output: [src, pos, key]
    \* the synchronous RowWriter (writer.rs)
    rw_pc,          \* the RowWriter's caller: off, ready, panicked
    rw_schema,      \* RowWriter.schema: the fields' converted and physical types
    rw_max_row_group, \* RowWriter.max_row_group
    rw_buffer,      \* RowWriter.buffer
    rw_groups,      \* the row groups flush started, with the columns written
    rw_appended,    \* history: every row passed to append_row, in order
    rw_explicit     \* history: the number of flush() calls made by the user

merge_vars == <<m_pc, m_sources, m_cmp, m_cursor, m_out>>

writer_vars == <<rw_pc, rw_schema, rw_max_row_group, rw_buffer, rw_groups,
                 rw_appended, rw_explicit>>

\* What the write pipeline leaves alone.
outside_pipeline == <<merge_vars, writer_vars>>

pipeline_vars == <<max_row_group, buffer, write_sink, rec_buffer, chan, ppc,
                   caller, rows_to_write, cpc, cur, cresult, written,
                   appended, sent, flush_calls, explicit>>

vars == <<max_row_group, buffer, write_sink, rec_buffer, chan, ppc, caller,
          rows_to_write, cpc, cur, cresult, written, appended, sent,
          flush_calls, explicit, merge_vars, writer_vars>>

producer_vars == <<max_row_group, buffer, write_sink, ppc, caller,
                   rows_to_write, appended, sent, flush_calls, explicit>>
consumer_vars == <<rec_buffer, cpc, cur, cresult, written>>

RECURSIVE Concat(_)
\* The rows of a sequence of batches, in order.
Concat(groups) ==
    IF groups = <<>> THEN <<>> ELSE Head(groups) \o Concat(Tail(groups))

\* ------------------------------------------------------------------ Init
\* No merge is running.
MergeOff ==
    /\ m_pc = "off"
    /\ m_sources = <<>>
    /\ m_cmp = "lt"
    /\ m_cursor = <<>>
    /\ m_out = <<>>

\* No synchronous RowWriter is in use.
WriterOff ==
    /\ rw_pc = "off"
    /\ rw_schema = <<>>
    /\ rw_max_row_group = 0
    /\ rw_buffer = <<>>
    /\ rw_groups = <<>>
    /\ rw_appended = <<>>
    /\ rw_explicit = 0

\* RowWriteBuffer::new: an empty buffer, a fresh channel, the thread spawned.
Init ==
    /\ MergeOff
    /\ WriterOff
    /\ max_row_group \in 0..MaxGroupSize
    /\ buffer = <<>>
    /\ write_sink = TRUE
    /\ rec_buffer = TRUE
    /\ chan = <<>>
    /\ ppc = "idle"
    /\ caller = "none"
    /\ rows_to_write = <<>>
    /\ cpc = "init"
    /\ cur = <<>>
    /\ cresult = "none"
    /\ written = <<>>
    /\ appended = <<>>
    /\ sent = <<>>
    /\ flush_calls = 0
    /\ explicit = 0

\* ------------------------------------------------------------- the channel
\* A faulty variant: one batch more than the capacity fits.
HasSpace_OffByOne == Len(chan) <= ChannelCapacity

\* send blocks while the channel's buffer is full.
HasSpace == Len(chan) < ChannelCapacity

\* A faulty variant: send never reports the disconnected receiver.
SendFails_Never == FALSE

\* send returns Err once the Receiver is disconnected; flush unwraps it.
SendFails == ~rec_buffer

\* A faulty variant: a sent batch goes to the front of the queue.
Enqueue_Front(q, rows) == <<rows>> \o q

\* A sent batch goes to the back of the queue.
Enqueue(q, rows) == Append(q, rows)

\* ------------------------------------------------------------- the producer
\* remaining_space: usize subtraction. underflow marks a result below zero,
\* which panics with overflow checks and wraps modulo 2^64 without them;
\* val is then the distance below zero.
remaining_space ==
    IF max_row_group >= Len(buffer)
    THEN [underflow |-> FALSE, val |-> max_row_group - Len(buffer)]
    ELSE [underflow |-> TRUE, val |-> Len(buffer) - max_row_group]

\* A faulty variant: the batch counts as full one row early.
BufferFull_Early(buf) == Len(buf) + 1 = max_row_group

\* append_row's test for a full batch.
BufferFull(buf) == Len(buf) = max_row_group

\* A faulty variant: close never flushes the partial batch.
CloseNeedsFlush_Never == FALSE

\* A faulty variant: close flushes even an empty batch.
CloseNeedsFlush_Always == TRUE

\* close's test for a partial batch to flush.
CloseNeedsFlush == Len(buffer) > 0

\* A faulty variant: close keeps the sender alive.
SinkAfterDrop_Kept == TRUE

\* drop(self.write_sink): the sender is gone after close's drop.
SinkAfterDrop == FALSE

\* A faulty variant: close does not wait for the writer thread.
JoinReady_NoWait == TRUE

\* join returns once the writer thread has finished.
JoinReady == cpc = "done"

\* What follows a successful send, by the operation that called flush:
\* append_row clears the buffer, close drops the sender and joins.
AfterSend(op) ==
    /\ buffer' = <<>>
    /\ rows_to_write' = <<>>
    /\ IF op = "close"
       THEN /\ write_sink' = SinkAfterDrop
            /\ ppc' = "join"
            /\ caller' = "close"
       ELSE /\ write_sink' = write_sink
            /\ ppc' = "idle"
            /\ caller' = "none"

\* The unwrap of send's Err panics; unwinding drops the RowWriteBuffer.
SendPanics(op) ==
    /\ ppc' = "panic_send"
    /\ caller' = op
    /\ buffer' = <<>>
    /\ rows_to_write' = <<>>
    /\ write_sink' = FALSE
    /\ UNCHANGED <<chan, sent>>

\* flush: takes the buffer (leaving it empty) and sends the batch; the send
\* fails, succeeds at once, or blocks on a full channel.
FlushBody(op, rows) ==
    /\ flush_calls' = flush_calls + 1
    /\ IF SendFails
       THEN SendPanics(op)
       ELSE IF HasSpace
            THEN /\ chan' = Enqueue(chan, rows)
                 /\ sent' = Append(sent, [rows |-> rows, by |-> op])
                 /\ AfterSend(op)
            ELSE /\ ppc' = "send"
                 /\ caller' = op
                 /\ rows_to_write' = rows
                 /\ buffer' = <<>>
                 /\ UNCHANGED <<chan, sent, write_sink>>

\* append_row(row)
AppendRow(row) ==
    /\ ppc = "idle"
    /\ Len(appended) < MaxRows
    /\ appended' = Append(appended, row)
    /\ LET nb == Append(buffer, row)
       IN  IF BufferFull(nb)
           THEN FlushBody("append", nb)
           ELSE /\ buffer' = nb
                /\ UNCHANGED <<chan, sent, write_sink, ppc, caller,
                               rows_to_write, flush_calls>>
    /\ UNCHANGED <<max_row_group, explicit, consumer_vars>>

\* flush() called by the user
Flush ==
    /\ ppc = "idle"
    /\ explicit < MaxExplicitFlushes
    /\ explicit' = explicit + 1
    /\ FlushBody("flush", buffer)
    /\ UNCHANGED <<max_row_group, appended, consumer_vars>>

\* close(): flushes a partial batch, drops the sender, joins the thread.
Close ==
    /\ ppc = "idle"
    /\ IF CloseNeedsFlush
       THEN FlushBody("close", buffer)
       ELSE /\ write_sink' = SinkAfterDrop
            /\ ppc' = "join"
            /\ caller' = "close"
            /\ UNCHANGED <<buffer, chan, sent, rows_to_write, flush_calls>>
    /\ UNCHANGED <<max_row_group, appended, explicit, consumer_vars>>

\* A producer blocked in send wakes up: the receiver is gone, or a slot is free.
SendComplete ==
    /\ ppc = "send"
    /\ IF SendFails
       THEN SendPanics(caller)
       ELSE /\ HasSpace
            /\ chan' = Enqueue(chan, rows_to_write)
            /\ sent' = Append(sent, [rows |-> rows_to_write, by |-> caller])
            /\ AfterSend(caller)
    /\ UNCHANGED <<max_row_group, appended, flush_calls, explicit, consumer_vars>>

\* writer_handle.join().unwrap(): panics if the thread panicked.
JoinComplete ==
    /\ ppc = "join"
    /\ JoinReady
    /\ ppc' = IF cresult = "panic" THEN "panic_join" ELSE "closed"
    /\ UNCHANGED <<max_row_group, buffer, write_sink, chan, caller,
                   rows_to_write, appended, sent, flush_calls, explicit,
                   consumer_vars>>

\* remaining_space(): a query; with overflow checks an underflow panics.
RemainingSpace ==
    /\ ppc = "idle"
    /\ \E overflow_checks \in BOOLEAN :
          IF remaining_space.underflow /\ overflow_checks
          THEN /\ ppc' = "panic_overflow"
               /\ write_sink' = FALSE
               /\ UNCHANGED <<max_row_group, buffer, chan, caller,
                              rows_to_write, appended, sent, flush_calls,
                              explicit, consumer_vars>>
          ELSE UNCHANGED vars

\* ------------------------------------------------------- the writer thread
\* Dropping the Receiver disconnects the channel and discards what it holds.
\* create_writer: opens the sink, or panics (unknown prefix, open failure).
CreateWriter ==
    /\ cpc = "init"
    /\ \E opened \in BOOLEAN :
          IF opened
          THEN /\ cpc' = "recv"
               /\ UNCHANGED <<rec_buffer, cresult, chan>>
          ELSE /\ cpc' = "done"
               /\ cresult' = "panic"
               /\ rec_buffer' = FALSE
               /\ chan' = <<>>
    /\ UNCHANGED <<cur, written, producer_vars>>

\* channel_writer's loop: receive the next batch; return Ok when the channel
\* is closed and empty.
Recv ==
    /\ cpc = "recv"
    /\ IF chan # <<>>
       THEN /\ cur' = Head(chan)
            /\ chan' = Tail(chan)
            /\ cpc' = "encode"
            /\ UNCHANGED <<rec_buffer, cresult>>
       ELSE /\ ~write_sink
            /\ cresult' = "ok"
            /\ rec_buffer' = FALSE
            /\ cpc' = "returned"
            /\ UNCHANGED <<cur, chan>>
    /\ UNCHANGED <<written, producer_vars>>

\* A faulty variant: an encoding failure is logged and the loop goes on to
\* the next batch.
Encode_Continue ==
    /\ cpc = "encode"
    /\ \E outcome \in {"ok", "err", "panic"} :
          /\ cur' = <<>>
          /\ cpc' = "recv"
          /\ written' = IF outcome = "ok" THEN Append(written, cur) ELSE written
          /\ cresult' = IF outcome = "ok" THEN cresult ELSE outcome
          /\ UNCHANGED <<rec_buffer, chan>>
    /\ UNCHANGED producer_vars

\* channel_writer's loop: write one row group for the batch, or stop on an
\* encoding error (Err returned) or an abort (panic) inside the encoder.
Encode ==
    /\ cpc = "encode"
    /\ \E outcome \in {"ok", "err", "panic"} :
          /\ cur' = <<>>
          /\ IF outcome = "ok"
             THEN /\ written' = Append(written, cur)
                  /\ cpc' = "recv"
                  /\ UNCHANGED <<rec_buffer, cresult, chan>>
             ELSE /\ cresult' = outcome
                  /\ rec_buffer' = FALSE
                  /\ chan' = <<>>
                  /\ cpc' = IF outcome = "panic" THEN "done" ELSE "returned"
                  /\ UNCHANGED written
    /\ UNCHANGED producer_vars

\* The thread closure after channel_writer returned: prints the outcome
\* (Ok or Err alike) and ends normally.
ThreadExit ==
    /\ cpc = "returned"
    /\ cpc' = "done"
    /\ UNCHANGED <<rec_buffer, cur, cresult, written, chan, producer_vars>>

Producer ==
    \/ \E row \in RowValues : AppendRow(row)
    \/ Flush
    \/ Close
    \/ SendComplete
    \/ JoinComplete
    \/ RemainingSpace

Consumer ==
    \/ CreateWriter
    \/ Recv
    \/ Encode
    \/ ThreadExit

Next == (Producer \/ Consumer) /\ UNCHANGED outside_pipeline

Spec == Init /\ [][Next]_vars

\* The writer thread is scheduled fairly, and a blocked send or join returns
\* once it can.
FairSpec ==
    /\ Spec
    /\ WF_vars(Consumer /\ UNCHANGED outside_pipeline)
    /\ WF_vars(SendComplete /\ UNCHANGED outside_pipeline)
    /\ WF_vars(JoinComplete /\ UNCHANGED outside_pipeline)

\* No write pipeline is running.
PipelineOff ==
    /\ max_row_group = 0
    /\ buffer = <<>>
    /\ write_sink = FALSE
    /\ rec_buffer = FALSE
    /\ chan = <<>>
    /\ ppc = "off"
    /\ caller = "none"
    /\ rows_to_write = <<>>
    /\ cpc = "off"
    /\ cur = <<>>
    /\ cresult = "none"
    /\ written = <<>>
    /\ appended = <<>>
    /\ sent = <<>>
    /\ flush_calls = 0
    /\ explicit = 0

\* What the merge and the synchronous RowWriter leave alone.
outside_merge == <<pipeline_vars, writer_vars>>
outside_writer == <<pipeline_vars, merge_vars>>

\* ---------------------------------------------------------- the sorted merge
\* merge(sources, output, less_than): one cursor per source; repeatedly the
\* cursor whose current row is not greater than every other current row is
\* selected (the earliest such source on ties), its row appended to the
\* output and the cursor advanced, until every source is exhausted.
MaxSources == 2
MaxSourceLen == 2

\* The keys of the rows of a source (smaller_test compares get_long(0)).
Keys == 1..2

\* The sequences over S of length at most n.
SeqsUpTo(S, n) == UNION {[1..k -> S] : k \in 0..n}

\* The least element of a non-empty set of source indices.
Least(S) == CHOOSE i \in S : \A j \in S : i <= j

\* smaller_test of the examples: k1 <= k2 on the first column.
smaller_test(k1, k2) == k1 <= k2

\* The comparator in use: numeric less-than (a strict weak ordering), or the
\* examples' smaller_test.
less_than(a, b) == IF m_cmp = "lt" THEN a < b ELSE smaller_test(a, b)

\* A faulty variant: a source counts as exhausted one row early.
Exhausted_Early(i) == m_cursor[i] >= Len(m_sources[i])

\* The cursor of source i has no current row left.
Exhausted(i) == m_cursor[i] > Len(m_sources[i])

\* The sources still under consideration.
Live == {i \in 1..Len(m_sources) : ~Exhausted(i)}

\* The current row of source i.
Current(i) == m_sources[i][m_cursor[i]]

\* A faulty variant: the comparison reversed, selecting a greatest row.
NotGreater_Reversed(i) ==
    \A j \in Live \ {i} : ~less_than(Current(i), Current(j))

\* The current row of source i is not greater than every other current row.
NotGreater(i) ==
    \A j \in Live \ {i} : ~less_than(Current(j), Current(i))

\* A faulty variant: on ties the latest source wins.
TieBreak_Latest(S) == CHOOSE i \in S : \A j \in S : i >= j

\* Ties are broken by source list order: the earliest source wins.
TieBreak(S) == Least(S)

\* The cursors the merge may select. With a strict weak ordering some current
\* row is not greater than every other and the choice is the earliest such
\* source; with a comparator that is no strict weak ordering there may be
\* none, and the result is unspecified: any live cursor.
Selected ==
    LET candidates == {i \in Live : NotGreater(i)}
    IN  IF candidates # {} THEN {TieBreak(candidates)} ELSE Live

\* The merge is called: sources and comparator are the caller's.
MergeInit ==
    /\ PipelineOff
    /\ WriterOff
    /\ m_pc = "start"
    /\ m_sources \in UNION {[1..n -> SeqsUpTo(Keys, MaxSourceLen)] : n \in 1..MaxSources}
    /\ m_cmp \in {"lt", "le"}
    /\ m_cursor = <<>>
    /\ m_out = <<>>

\* One reader is opened per source and one cursor created per source; a
\* source that fails to open aborts the merge before any cursor exists.
MergeOpen ==
    /\ m_pc = "start"
    /\ \E opened \in BOOLEAN :
          IF opened
          THEN /\ m_pc' = "merging"
               /\ m_cursor' = [i \in 1..Len(m_sources) |-> 1]
          ELSE /\ m_pc' = "aborted"
               /\ m_cursor' = m_cursor
    /\ UNCHANGED <<m_sources, m_cmp, m_out, outside_merge>>

\* One round: the selected cursor's row goes to the output and the cursor
\* advances.
MergeStep ==
    /\ m_pc = "merging"
    /\ \E i \in Selected :
          /\ m_out' = Append(m_out, [src |-> i, pos |-> m_cursor[i], key |-> Current(i)])
          /\ m_cursor' = [m_cursor EXCEPT ![i] = @ + 1]
    /\ UNCHANGED <<m_pc, m_sources, m_cmp, outside_merge>>

\* Every source is exhausted: the output writer is closed.
MergeClose ==
    /\ m_pc = "merging"
    /\ Live = {}
    /\ m_pc' = "closed"
    /\ UNCHANGED <<m_sources, m_cmp, m_cursor, m_out, outside_merge>>

MergeNext == MergeOpen \/ MergeStep \/ MergeClose

MergeSpec == MergeInit /\ [][MergeNext]_vars

\* ------------------------------------------- the synchronous RowWriter
\* writer.rs: RowWriter buffers rows and flush() transposes the buffer into
\* one row group, column by column, through the sink's column writers.
MaxFields == 2
MaxBatch == 3
MaxAppends == 2
MaxWriterFlushes == 2

\* The (converted type, physical type) pairs a schema field may carry.
FieldTypes ==
    { [converted |-> "INT_64",           physical |-> "INT64"],
      [converted |-> "UTF8",             physical |-> "BYTE_ARRAY"],
      [converted |-> "TIMESTAMP_MILLIS", physical |-> "INT64"],
      [converted |-> "NONE",             physical |-> "INT64"],
      [converted |-> "NONE",             physical |-> "BYTE_ARRAY"],
      [converted |-> "INT_32",           physical |-> "INT32"] }

Schemas == UNION {[1..n -> FieldTypes] : n \in 1..MaxFields}

\* Three input rows shaped like those of the test, (id: i64, account:
\* String), with distinct ids and texts; a text is its sequence of code
\* points ("b", "a" with e-acute, "c"). A batch is any sequence of them.
LongField(v) == [kind |-> "Long", long |-> v, str |-> <<>>]
StrField(s) == [kind |-> "Str", long |-> 0, str |-> s]
Rows ==
    { <<LongField(10), StrField(<<98>>)>>,
      <<LongField(2), StrField(<<97, 233>>)>>,
      <<LongField(7), StrField(<<99>>)>> }

\* row.get_long(idx) and row.get_string(idx) are Ok only for a field of
\* that kind at an index the row has; the encoder unwraps them.
get_long_ok(row, idx) == idx \in 1..Len(row) /\ row[idx].kind = "Long"
get_string_ok(row, idx) == idx \in 1..Len(row) /\ row[idx].kind = "Str"

\* as_str().into(): the UTF-8 bytes of a text (code points below 2048).
RECURSIVE Utf8Bytes(_)
Utf8Bytes(s) ==
    IF s = <<>> THEN <<>>
    ELSE LET cp == Head(s)
         IN (IF cp < 128 THEN <<cp>>
             ELSE <<192 + (cp \div 64), 128 + (cp % 64)>>) \o Utf8Bytes(Tail(s))

\* column.iter().min() and column.iter().max() of a non-empty column.
RECURSIVE min_upto(_, _)
min_upto(column, n) ==
    IF n = 1 THEN column[1]
    ELSE LET m == min_upto(column, n - 1)
         IN IF column[n] < m THEN column[n] ELSE m

RECURSIVE max_upto(_, _)
max_upto(column, n) ==
    IF n = 1 THEN column[1]
    ELSE LET m == max_upto(column, n - 1)
         IN IF column[n] >= m THEN column[n] ELSE m

\* A faulty variant: the first value taken as the minimum.
the_min_First(column) == column[1]

the_min(column) == min_upto(column, Len(column))

the_max(column) == max_upto(column, Len(column))

\* Byte-wise lexicographic order of two byte arrays.
RECURSIVE BytesLeq(_, _)
BytesLeq(a, b) ==
    IF a = <<>> THEN TRUE
    ELSE IF b = <<>> THEN FALSE
    ELSE IF Head(a) # Head(b) THEN Head(a) < Head(b)
    ELSE BytesLeq(Tail(a), Tail(b))

\* A faulty variant: the least and greatest byte arrays as the statistics.
utf8_stats_TrueMinMax(column) ==
    << CHOOSE x \in {column[i] : i \in 1..Len(column)} :
           \A i \in 1..Len(column) : BytesLeq(x, column[i]),
       CHOOSE x \in {column[i] : i \in 1..Len(column)} :
           \A i \in 1..Len(column) : BytesLeq(column[i], x) >>

\* The statistics of a text column: Some(&column[0]) and column.last().
utf8_stats(column) == << column[1], column[Len(column)] >>

\* What a column writer has received: nothing, or values with statistics.
NoColumn == [written |-> FALSE, values |-> <<>>, stats |-> <<>>]
Column(values, stats) == [written |-> TRUE, values |-> values, stats |-> stats]

\* write_i64_column: collect (unwrap of get_long), min and max (unwrap on
\* the empty column), then the write, whose Err is returned.
write_i64_column(rows, idx, io_ok) ==
    IF \E r \in 1..Len(rows) : ~get_long_ok(rows[r], idx)
    THEN [result |-> "panic", col |-> NoColumn]
    ELSE LET column == [r \in 1..Len(rows) |-> rows[r][idx].long]
         IN IF column = <<>> THEN [result |-> "panic", col |-> NoColumn]
            ELSE IF ~io_ok THEN [result |-> "err", col |-> NoColumn]
            ELSE [result |-> "ok",
                  col |-> Column(column, <<the_min(column), the_max(column)>>)]

\* write_utf8_column: collect (unwrap of get_string), column[0] (a panic on
\* the empty column), then the write, whose Err is returned.
write_utf8_column(rows, idx, io_ok) ==
    IF \E r \in 1..Len(rows) : ~get_string_ok(rows[r], idx)
    THEN [result |-> "panic", col |-> NoColumn]
    ELSE LET column == [r \in 1..Len(rows) |-> Utf8Bytes(rows[r][idx].str)]
         IN IF column = <<>> THEN [result |-> "panic", col |-> NoColumn]
            ELSE IF ~io_ok THEN [result |-> "err", col |-> NoColumn]
            ELSE [result |-> "ok", col |-> Column(column, utf8_stats(column))]

\* A faulty variant: the timestamp arm writes the column as integers.
column_arm_TimestampWritten(field) ==
    IF field.converted = "INT_64" THEN "i64"
    ELSE IF field.converted = "UTF8" THEN "utf8"
    ELSE IF field.converted = "TIMESTAMP_MILLIS" THEN "i64"
    ELSE IF field.converted = "NONE"
         THEN (IF field.physical = "INT64" THEN "i64" ELSE "panic")
    ELSE "panic"

\* A faulty variant: unknown types are skipped like the timestamp.
column_arm_UnknownSkipped(field) ==
    IF field.converted = "INT_64" THEN "i64"
    ELSE IF field.converted = "UTF8" THEN "utf8"
    ELSE IF field.converted = "TIMESTAMP_MILLIS" THEN "skip"
    ELSE IF field.converted = "NONE"
         THEN (IF field.physical = "INT64" THEN "i64" ELSE "skip")
    ELSE "skip"

\* The match of flush on the field's converted and physical type.
column_arm(field) ==
    IF field.converted = "INT_64" THEN "i64"
    ELSE IF field.converted = "UTF8" THEN "utf8"
    ELSE IF field.converted = "TIMESTAMP_MILLIS" THEN "skip"
    ELSE IF field.converted = "NONE"
         THEN (IF field.physical = "INT64" THEN "i64" ELSE "panic")
    ELSE "panic"

\* The loop of flush from column idx on. avail is the number of columns for
\* which next_column() yields a column writer (past it: the panic of the
\* else branch or of the unwrap); fail_at is the column whose write returns
\* Err (0: none). cols are the columns completed so far.
RECURSIVE encode_from(_, _, _, _, _)
encode_from(rows, idx, cols, avail, fail_at) ==
    IF idx > Len(rw_schema) THEN [result |-> "ok", cols |-> cols]
    ELSE IF idx > avail THEN [result |-> "panic", cols |-> cols]
    ELSE LET arm == column_arm(rw_schema[idx])
             w == IF arm = "i64" THEN write_i64_column(rows, idx, fail_at # idx)
                  ELSE IF arm = "utf8" THEN write_utf8_column(rows, idx, fail_at # idx)
                  ELSE IF arm = "skip" THEN [result |-> "ok", col |-> NoColumn]
                  ELSE [result |-> "panic", col |-> NoColumn]
         IN IF w.result = "ok"
            THEN encode_from(rows, idx + 1, Append(cols, w.col), avail, fail_at)
            ELSE [result |-> w.result, cols |-> cols]

\* What the sink does during one flush over n fields, up to its first
\* failure: next_row_group() fails, or it yields avail column writers of
\* which the write of column fail_at returns Err (0: none does).
SinkRuns(n) ==
    { s \in [rg_ok : BOOLEAN, avail : 0..n, fail_at : 0..n] :
        /\ s.fail_at <= s.avail
        /\ ~s.rg_ok => (s.avail = 0 /\ s.fail_at = 0) }

\* RowWriter::flush on the buffer `rows`. rg_ok: next_row_group() is Ok
\* (else its unwrap panics). Called by append_row (auto), an Err panics in
\* expect and an Ok is followed by buffer.clear(); flush itself leaves the
\* buffer as it is.
RW_FlushBody(rows, auto, rg_ok, avail, fail_at) ==
    IF ~rg_ok
    THEN /\ rw_pc' = "panicked"
         /\ rw_buffer' = rows
         /\ rw_groups' = rw_groups
    ELSE LET e == encode_from(rows, 1, <<>>, avail, fail_at)
             group == [batch |-> rows, cols |-> e.cols,
                       result |-> e.result, avail |-> avail]
         IN /\ rw_groups' = Append(rw_groups, group)
            /\ rw_pc' = IF e.result = "panic" \/ (auto /\ e.result = "err")
                        THEN "panicked" ELSE "ready"
            /\ rw_buffer' = IF auto /\ e.result = "ok" THEN <<>> ELSE rows

\* flush() called by the user.
RW_Flush ==
    /\ rw_pc = "ready"
    /\ rw_explicit < MaxWriterFlushes
    /\ \E sink \in SinkRuns(Len(rw_schema)) :
           RW_FlushBody(rw_buffer, FALSE, sink.rg_ok, sink.avail, sink.fail_at)
    /\ rw_explicit' = rw_explicit + 1
    /\ UNCHANGED <<rw_schema, rw_max_row_group, rw_appended, outside_writer>>

\* append_row(row): push, and a flush when the buffer reaches max_row_group.
RW_AppendRow(row) ==
    /\ rw_pc = "ready"
    /\ Len(rw_appended) < MaxAppends
    /\ rw_appended' = Append(rw_appended, row)
    /\ LET buf == Append(rw_buffer, row)
       IN IF Len(buf) = rw_max_row_group
          THEN \E sink \in SinkRuns(Len(rw_schema)) :
                   RW_FlushBody(buf, TRUE, sink.rg_ok, sink.avail, sink.fail_at)
          ELSE /\ rw_buffer' = buf
               /\ UNCHANGED <<rw_pc, rw_groups>>
    /\ UNCHANGED <<rw_schema, rw_max_row_group, rw_explicit, outside_writer>>

\* RowWriter::new and any sequence of append_row and flush.
RowWriterInit ==
    /\ PipelineOff
    /\ MergeOff
    /\ rw_pc = "ready"
    /\ rw_schema \in Schemas
    /\ rw_max_row_group \in 0..MaxGroupSize
    /\ rw_buffer = <<>>
    /\ rw_groups = <<>>
    /\ rw_appended = <<>>
    /\ rw_explicit = 0

RowWriterNext == (\E row \in Rows : RW_AppendRow(row)) \/ RW_Flush

RowWriterSpec == RowWriterInit /\ [][RowWriterNext]_vars

\* One flush of a RowWriter holding any batch the caller may have appended
\* to a buffer that is not yet full, under any schema.
EncodeInit ==
    /\ PipelineOff
    /\ MergeOff
    /\ rw_pc = "ready"
    /\ rw_schema \in Schemas
    /\ rw_max_row_group = MaxBatch + 1
    /\ rw_buffer \in SeqsUpTo(Rows, MaxBatch)
    /\ rw_groups = <<>>
    /\ rw_appended = rw_buffer
    /\ rw_explicit = 0

EncodeNext == rw_explicit = 0 /\ RW_Flush

EncodeSpec == EncodeInit /\ [][EncodeNext]_vars

\* ------------------------------------------------------------------ claims
\* The batches moved out of the buffer and not yet written or discarded:
\* held by a producer blocked in send, queued, or being encoded.
InFlight ==
    Len(chan) + (IF ppc = "send" THEN 1 ELSE 0) + (IF cpc = "encode" THEN 1 ELSE 0)

\* The batches of the history of sends.
SentBatches == [i \in 1..Len(sent) |-> sent[i].rows]

\* No batch of the history of sends was sent by close's flush.
NoCloseFlush == \A i \in 1..Len(sent) : sent[i].by # "close"

\* C1: for group_size >= 1, once close() has returned and the writer met no
\* error, the row groups written, concatenated in order, are exactly the rows
\* appended, in order.
C1_RoundTrip ==
    (ppc = "closed" /\ cresult = "ok" /\ max_row_group >= 1)
        => Concat(written) = appended

\* close() returned after three appends into groups of two, with no explicit
\* flush: a full row group and a partial one.
C1_Witness ==
    /\ ppc = "closed"
    /\ cresult = "ok"
    /\ max_row_group = 2
    /\ explicit = 0
    /\ Len(appended) = 3
    /\ Len(written) = 2

\* C2: the row groups written are a prefix of the batches enqueued, in the
\* same order, one row group per batch.
C2_WrittenPrefixOfSent ==
    /\ Len(written) <= Len(sent)
    /\ \A i \in 1..Len(written) : written[i] = sent[i].rows

\* Two different batches were written, with a third one sent behind them.
C2_Witness ==
    /\ Len(written) >= 2
    /\ written[1] # written[2]
    /\ Len(sent) >= 3

\* C3: when close() has returned, the channel is closed and empty, the
\* writer thread has finished and holds no batch, and, absent an encoding
\* error, every batch enqueued has been written.
C3_CloseDrains ==
    ppc = "closed" =>
        /\ ~write_sink
        /\ ~rec_buffer
        /\ chan = <<>>
        /\ cpc = "done"
        /\ cur = <<>>
        /\ (cresult = "ok" => written = SentBatches)

\* close() returned after at least two batches went through the channel.
C3_Witness ==
    /\ ppc = "closed"
    /\ cresult = "ok"
    /\ Len(sent) >= 2

\* C4 as claimed: at most ChannelCapacity + 1 batches are in flight.
C4_InFlightAtMostCapPlus1 == InFlight <= ChannelCapacity + 1

\* C4 as amended: at most ChannelCapacity + 2 batches are in flight (a full
\* channel, one batch being encoded, one held by the blocked producer).
C4_InFlightAtMostCapPlus2 == InFlight <= ChannelCapacity + 2

\* The channel is full, the writer is encoding and the producer is blocked.
C4_Witness ==
    /\ Len(chan) = ChannelCapacity
    /\ cpc = "encode"
    /\ ppc = "send"
    /\ InFlight = ChannelCapacity + 2

\* C5: under fair scheduling a producer blocked in flush is eventually
\* released (the send succeeds or fails), and close()'s wait for the writer
\* thread eventually ends.
C5_Completes ==
    /\ (ppc = "send") ~> (ppc # "send")
    /\ (ppc = "join") ~> (ppc \in {"closed", "panic_join"})

\* The producer is blocked in flush on a full channel.
C5_Witness ==
    /\ ppc = "send"
    /\ Len(chan) = ChannelCapacity
    /\ rec_buffer

\* C6: close() never returns normally when the writer stopped on an error
\* (an Err returned by the writer loop, or a panic inside it).
C6_ClosePropagatesError ==
    ppc = "closed" => cresult \notin {"err", "panic"}

\* C7: a flush called after the receiver is gone panics, a producer blocked
\* in flush when the receiver goes leaves the send only by panicking, and no
\* batch is ever enqueued on a channel whose receiver is gone.
C7_FlushFailsAfterStop ==
    [][ /\ (flush_calls' > flush_calls /\ ~rec_buffer) => ppc' = "panic_send"
        /\ (ppc = "send" /\ ~rec_buffer /\ ppc' # "send") => ppc' = "panic_send"
        /\ Len(sent') > Len(sent) => rec_buffer ]_vars

\* A flush panicked after the writer stopped on an error.
C7_Witness ==
    /\ ppc = "panic_send"
    /\ ~rec_buffer
    /\ cresult \in {"err", "panic"}
    /\ flush_calls >= 2

\* C8: for group_size >= 1, an append_row calls flush exactly when it brings
\* the batch to group_size rows, and every batch append_row sends or holds
\* has exactly group_size rows.
C8_AutoFlushExactlyWhenFull ==
    /\ [](max_row_group >= 1 =>
            /\ \A i \in 1..Len(sent) :
                  sent[i].by = "append" => Len(sent[i].rows) = max_row_group
            /\ (ppc = "send" /\ caller = "append")
                  => Len(rows_to_write) = max_row_group)
    /\ [][(max_row_group >= 1 /\ Len(appended') > Len(appended)) =>
            ((flush_calls' = flush_calls + 1) <=> (Len(buffer) + 1 = max_row_group))]_vars

\* A full batch was sent by append_row and a partial one by close().
C8_Witness ==
    /\ max_row_group >= 2
    /\ \E i \in 1..Len(sent) : sent[i].by = "append"
    /\ \E j \in 1..Len(sent) :
          sent[j].by = "close" /\ Len(sent[j].rows) < max_row_group

\* C9: for every group_size, between operations the batch holds at most
\* group_size rows and remaining_space() + current_size = group_size, the
\* subtraction never going below zero.
C9_CapacityInvariantAnySize ==
    ppc = "idle" =>
        /\ Len(buffer) <= max_row_group
        /\ ~remaining_space.underflow
        /\ remaining_space.val + Len(buffer) = max_row_group

\* C10: close() on an empty batch calls no flush and enqueues nothing, drops
\* the sender and goes on to join; and when such a close() has returned, the
\* writer thread has finished.
C10_CloseOnEmpty ==
    /\ [][(ppc = "idle" /\ buffer = <<>> /\ caller' = "close") =>
            /\ flush_calls' = flush_calls
            /\ sent' = sent
            /\ chan' = chan
            /\ ~write_sink'
            /\ ppc' = "join"]_vars
    /\ []((ppc = "closed" /\ NoCloseFlush) =>
            (cpc = "done" /\ ~write_sink /\ ~rec_buffer))

\* close() returned without having flushed anything itself.
C10_Witness ==
    /\ ppc = "closed"
    /\ NoCloseFlush
    /\ cresult = "ok"
    /\ Len(appended) >= 1

\* C15: once the writer has stopped on a failure, it stays stopped: no row
\* group is written afterwards, the row groups already written stay as they
\* are, and the loop is not entered again.
C15_NoWriteAfterFailure ==
    [][(cresult = "err" \/ cresult = "panic") =>
          (/\ written' = written
           /\ cresult' = cresult
           /\ cpc' \in {"returned", "done"})]_vars

\* An encoding failed after one row group was written, with at least two
\* batches sent behind it that are never written.
C15_Witness ==
    /\ cresult = "err"
    /\ cpc = "done"
    /\ Len(written) = 1
    /\ Len(sent) >= 3

\* C19: for group_size >= 1, every batch placed on the channel holds at
\* least 1 and at most group_size rows.
C19_BatchSizes ==
    max_row_group >= 1 =>
        \A i \in 1..Len(sent) :
            /\ Len(sent[i].rows) >= 1
            /\ Len(sent[i].rows) <= max_row_group

\* The keys of the output rows, in output order.
OutKeys == [i \in 1..Len(m_out) |-> m_out[i].key]

\* A sequence of keys is sorted under the comparator: no later key is less
\* than an earlier one.
SortedUnder(keys) ==
    \A i \in 1..Len(keys) : \A j \in i+1..Len(keys) : ~less_than(keys[j], keys[i])

\* Every row of every source is in the output exactly once.
OutputHasExactlyTheRows ==
    \A s \in 1..Len(m_sources) : \A p \in 1..Len(m_sources[s]) :
        Cardinality({i \in 1..Len(m_out) :
            m_out[i] = [src |-> s, pos |-> p, key |-> m_sources[s][p]]}) = 1

\* Two keys tie under the comparator: it orders them the same both ways.
Tied(a, b) == less_than(a, b) = less_than(b, a)

\* C11: with a strict weak ordering, the finished merge's output is sorted
\* iff every source is sorted, and it holds exactly the rows of all sources;
\* sources <<1,3>> and <<2,3>> merge to 1,2,3,3.
C11_SortedIffSourcesSorted ==
    (m_pc = "closed" /\ m_cmp = "lt") =>
        /\ SortedUnder(OutKeys) <=>
              (\A s \in 1..Len(m_sources) : SortedUnder(m_sources[s]))
        /\ OutputHasExactlyTheRows
        /\ m_sources = << <<1, 2>>, <<1, 2>> >> => OutKeys = <<1, 1, 2, 2>>

\* Two sorted sources with interleaved keys were merged.
C11_Witness ==
    /\ m_pc = "closed"
    /\ m_cmp = "lt"
    /\ m_sources = << <<1, 2>>, <<1, 2>> >>
    /\ OutKeys = <<1, 1, 2, 2>>
    /\ m_out[2].src = 2

\* C12: the output rows of each source appear in the source's own order;
\* the merge goes on while a source has rows and closes only when all are
\* exhausted; merged with an empty source, a source comes out unchanged,
\* sorted or not.
C12_SourceOrderPreserved ==
    /\ \A j \in 1..Len(m_out) :
          /\ \A i \in 1..(j - 1) :
                m_out[i].src = m_out[j].src => m_out[i].pos < m_out[j].pos
          /\ m_out[j].pos > 1 =>
                \E i \in 1..(j - 1) : /\ m_out[i].src = m_out[j].src
                                       /\ m_out[i].pos = m_out[j].pos - 1
    /\ (m_pc = "merging" /\ Live # {}) => Selected # {}
    /\ m_pc = "closed" =>
          /\ Live = {}
          /\ OutputHasExactlyTheRows
          /\ \A s \in 1..Len(m_sources) :
                (\A t \in 1..Len(m_sources) : t # s => m_sources[t] = <<>>)
                    => OutKeys = m_sources[s]

\* An unsorted source was merged with an empty one.
C12_Witness ==
    /\ m_pc = "closed"
    /\ m_sources = << <<2, 1>>, <<>> >>
    /\ OutKeys = <<2, 1>>

\* C13: whatever the comparator, the row a round emits is never tied with
\* the current row of an earlier live source.
C13_TiesToEarlierSource ==
    [][Len(m_out') > Len(m_out) =>
          LET e == m_out'[Len(m_out')]
          IN  \A j \in Live : j < e.src => ~Tied(Current(j), e.key)]_vars

\* C13 as amended: the same when the comparator is a strict weak ordering.
C13_TiesToEarlierSourceStrict ==
    [][(m_cmp = "lt" /\ Len(m_out') > Len(m_out)) =>
          LET e == m_out'[Len(m_out')]
          IN  \A j \in Live : j < e.src => ~Tied(Current(j), e.key)]_vars

\* Two sources with tied rows were merged under the strict comparator, the
\* earlier source's row first.
C13_Witness ==
    /\ m_pc = "closed"
    /\ m_cmp = "lt"
    /\ m_sources = << <<2>>, <<2>> >>
    /\ m_out[1].src = 1
    /\ m_out[2].src = 2

\* --------------------------------------------------- claims on the encoder
\* The columns of row group g that flush completed, by index.
ColsOf(g) == 1..Len(g.cols)

\* A 64-bit integer column: INT_64, or NONE over physical INT64.
IsInt64Field(f) ==
    f.converted = "INT_64" \/ (f.converted = "NONE" /\ f.physical = "INT64")

\* A field of none of the types flush handles.
IsUnknownField(f) ==
    ~IsInt64Field(f) /\ f.converted \notin {"UTF8", "TIMESTAMP_MILLIS"}

\* C14: for every non-empty batch and every 64-bit integer column (INT_64,
\* or NONE over INT64) the values written are the column's values of all
\* rows in batch order and the statistics are the exact minimum and the
\* exact maximum of those values; a flush that returns success has
\* completed every column of the schema.
C14_Int64ValuesAndExactStats ==
    \A k \in 1..Len(rw_groups) :
        LET g == rw_groups[k]
        IN /\ g.result = "ok" => Len(g.cols) = Len(rw_schema)
           /\ \A idx \in ColsOf(g) :
                (IsInt64Field(rw_schema[idx]) /\ g.batch # <<>>) =>
                    LET c == g.cols[idx]
                        n == Len(g.batch)
                    IN /\ c.written
                       /\ c.values = [r \in 1..n |-> g.batch[r][idx].long]
                       /\ \E r \in 1..n : c.stats[1] = c.values[r]
                       /\ \A r \in 1..n : c.stats[1] <= c.values[r]
                       /\ \E r \in 1..n : c.stats[2] = c.values[r]
                       /\ \A r \in 1..n : c.stats[2] >= c.values[r]

\* The values [10, 2, 7] were written with min 2 and max 10.
C14_Witness ==
    /\ Len(rw_groups) = 1
    /\ IsInt64Field(rw_schema[1])
    /\ Len(rw_groups[1].cols) >= 1
    /\ rw_groups[1].cols[1].values = <<10, 2, 7>>
    /\ rw_groups[1].cols[1].stats = <<2, 10>>

\* C16: for every non-empty batch and every UTF8 column the values written
\* are the text values (as bytes) of all rows in batch order, the min
\* written is the first row's value and the max written the last row's.
C16_Utf8PositionalStats ==
    \A k \in 1..Len(rw_groups) :
        LET g == rw_groups[k]
        IN \A idx \in ColsOf(g) :
             (rw_schema[idx].converted = "UTF8" /\ g.batch # <<>>) =>
                 LET c == g.cols[idx]
                     n == Len(g.batch)
                 IN /\ c.written
                    /\ c.values = [r \in 1..n |-> Utf8Bytes(g.batch[r][idx].str)]
                    /\ c.stats = << Utf8Bytes(g.batch[1][idx].str),
                                    Utf8Bytes(g.batch[n][idx].str) >>

\* A text column written with a min that is above its max in byte order:
\* "b" first, "a" followed by e-acute last.
C16_Witness ==
    /\ Len(rw_groups) = 1
    /\ Len(rw_schema) = 2
    /\ rw_schema[2].converted = "UTF8"
    /\ rw_groups[1].result = "ok"
    /\ Len(rw_groups[1].batch) = 3
    /\ rw_groups[1].cols[2].stats = << <<98>>, <<97, 195, 169>> >>

\* C17: for a TIMESTAMP_MILLIS field flush obtains the column writer but
\* writes no values and no statistics, goes on to the later columns (the
\* field is never the column at which a flush stops), and a flush whose
\* other columns succeed returns success with that column's data missing.
C17_TimestampSkipped ==
    \A k \in 1..Len(rw_groups) :
        LET g == rw_groups[k]
            stop == Len(g.cols) + 1
        IN /\ \A idx \in ColsOf(g) :
                rw_schema[idx].converted = "TIMESTAMP_MILLIS" =>
                    /\ idx <= g.avail
                    /\ g.cols[idx] = NoColumn
           /\ (g.result # "ok" /\ stop <= g.avail) =>
                rw_schema[stop].converted # "TIMESTAMP_MILLIS"
           /\ g.result = "ok" => Len(g.cols) = Len(rw_schema)

\* A flush of a non-empty batch returned success having skipped its first
\* column and written its second.
C17_Witness ==
    /\ Len(rw_groups) = 1
    /\ Len(rw_schema) = 2
    /\ rw_schema[1].converted = "TIMESTAMP_MILLIS"
    /\ rw_groups[1].batch # <<>>
    /\ rw_groups[1].result = "ok"
    /\ rw_groups[1].cols[1] = NoColumn
    /\ rw_groups[1].cols[2].written

\* C18: for a field of an unknown type, or one for which no column writer
\* is yielded, flush does not return success and completes no column at or
\* after that index; when it is the column flush stops at, flush panics.
C18_UnknownTypeAborts ==
    \A k \in 1..Len(rw_groups) :
        LET g == rw_groups[k]
        IN \A idx \in 1..Len(rw_schema) :
             (IsUnknownField(rw_schema[idx]) \/ idx > g.avail) =>
                 /\ g.result # "ok"
                 /\ Len(g.cols) < idx
                 /\ Len(g.cols) = idx - 1 => (g.result = "panic" /\ rw_pc = "panicked")

\* A flush wrote its first column and panicked at an unknown second one.
C18_Witness ==
    /\ Len(rw_groups) = 1
    /\ Len(rw_schema) = 2
    /\ IsUnknownField(rw_schema[2])
    /\ rw_groups[1].avail = 2
    /\ rw_groups[1].batch # <<>>
    /\ Len(rw_groups[1].cols) = 1
    /\ rw_groups[1].cols[1].written
    /\ rw_groups[1].result = "panic"

\* The number of rows that row group g holds in its written columns.
RowsWritten(g) ==
    IF \E idx \in ColsOf(g) : g.cols[idx].written THEN Len(g.batch) ELSE 0

RECURSIVE TotalRowsWritten(_)
TotalRowsWritten(groups) ==
    IF groups = <<>> THEN 0
    ELSE RowsWritten(Head(groups)) + TotalRowsWritten(Tail(groups))

\* C20: flush() leaves an empty buffer behind, and every appended row is
\* written into at most one row group: the row groups hold no more rows
\* than were appended.
C20_RowWrittenAtMostOnce ==
    /\ [][rw_explicit' = rw_explicit + 1 /\ rw_pc' = "ready" => rw_buffer' = <<>>]_vars
    /\ [](TotalRowsWritten(rw_groups) <= Len(rw_appended))

====
